---- MODULE Spec2Model ----
(***************************************************************************)
(* State-machine model of server/index.js (the advertising-panel API):    *)
(* an Express application over a MySQL store, a process-wide Razorpay      *)
(* client and a socket.io broadcast channel.                               *)
(*                                                                         *)
(* Every request is a process held in a slot.  A handler runs from one     *)
(* `await` to the next without interruption (single-threaded event loop),  *)
(* so each action is the code between two suspension points: the store or  *)
(* gateway call that the handler awaited takes effect, and the handler     *)
(* resumes up to its next await or its response.  Purely local awaits      *)
(* (bcrypt) are folded into the step that follows them.  The SELECT of      *)
(* loadRazorpayKeys is two steps, its evaluation by the store and the      *)
(* resumption of the caller, because the caller then writes what it read   *)
(* into process-wide state.                                                *)
(*                                                                         *)
(* Environment assumption: the store answers every query; the only store   *)
(* rejections modelled are the unique key on links.link_code and a         *)
(* rejected media INSERT.  The gateway may reject an order.                *)
(***************************************************************************)
EXTENDS Integers, Sequences, FiniteSets, TLC

\* ---------------------------------------------------------------- bounds
\* The clock (in days) stops advancing here.
MaxNow == 60
\* Rows a table may hold before new writers stop arriving.
MaxUsers == 2
MaxLinks == 2
MaxMedia == 3
MaxSettings == 2
MaxOrders == 1
\* Files in one upload.
MaxFiles == 2
\* Resolution of Math.random(): its value is u / RandRes, u in 0..RandRes-1.
RandRes == 2
\* Viewer connections.
NSock == 2

\* ----------------------------------------------------- program constants
LinkTTLDays == 30
TokenTTLDays == 1
CodeBase == 1000
CodeSpan == 9000
PaisePerRupee == 100

JWT_SECRET == "your_jwt_secret"
AdminEmail == "admin@gnetworkservices.in"

\* ---------------------------------------------------------------- domains
\* Two request slots: the handlers' races are between two requests in flight.
Req == {1, 2}
Sock == 1 .. NSock
TickSteps == {30}

\* JavaScript's falsy string: a missing or empty body field.
Empty == ""
Truthy(x) == x # Empty

AliceEmail == "alice@example.com"
Emails == {AdminEmail, AliceEmail}

NULL == [null |-> TRUE]

VARIABLES
  now,                \* wall clock, in days
  users,              \* table users
  links,              \* table links
  media,              \* table media
  payment_settings,   \* table payment_settings (append-only)
  user_packages,      \* table user_packages (subscriptions)
  payments,           \* table payments
  razorpayInstance,   \* the process-wide gateway client, or NULL
  bootPc,             \* the loadRazorpayKeys() call made at server start
  bootRows,           \* the rows its SELECT returned, until it resumes
  gatewayOrders,      \* the orders the gateway was asked to create
  rooms,              \* socket -> the rooms it has joined
  connected,          \* sockets currently connected
  inbox,              \* socket -> events delivered to it
  emitted,            \* events published with io.to(room).emit
  pc,                 \* request slot -> position in its handler
  rq,                 \* request slot -> the request (headers, body, params)
  lv,                 \* request slot -> the handler's local variables
  resp                \* request slot -> the response sent

storeVars == <<users, links, media, payment_settings, user_packages, payments>>
gatewayVars == <<razorpayInstance, bootPc, bootRows, gatewayOrders>>
socketVars == <<rooms, connected, inbox, emitted>>
reqVars == <<pc, rq, lv, resp>>
vars == <<now, storeVars, gatewayVars, socketVars, reqVars>>

\* ------------------------------------------------------------- responses
Response(status, body) == [status |-> status, body |-> body]
Err(status, msg) == Response(status, [error |-> msg])
InternalError == Err(500, "Internal server error")

NoReq == [kind |-> "none"]
NoLv == [none |-> TRUE]
NoResp == [status |-> 0, body |-> [none |-> TRUE]]

\* A slot takes a new request when it is free or its last response is sent.
Free(r) == pc[r] \in {"idle", "done"}

\* The handler of slot r responds and ends; its locals die with it.
Finish(r, request, response) ==
  /\ pc' = [pc EXCEPT ![r] = "done"]
  /\ rq' = [rq EXCEPT ![r] = request]
  /\ lv' = [lv EXCEPT ![r] = NoLv]
  /\ resp' = [resp EXCEPT ![r] = response]

\* The handler of slot r suspends at label l.
Await(r, l, request, locals) ==
  /\ pc' = [pc EXCEPT ![r] = l]
  /\ rq' = [rq EXCEPT ![r] = request]
  /\ lv' = [lv EXCEPT ![r] = locals]
  /\ resp' = [resp EXCEPT ![r] = NoResp]

\* The rows of a table, by index.
Rows(t) == 1 .. Len(t)

\* ------------------------------------------------------------ auth gate
\* A bearer token: the claims jwt.sign embeds, its expiry, and whether its
\* signature verifies under JWT_SECRET.
Token(userId, email, exp, key) ==
  [userId |-> userId, email |-> email, exp |-> exp, key |-> key]
TokAdmin == Token(1, AdminEmail, MaxNow + 1, JWT_SECRET)
TokAlice == Token(2, AliceEmail, 30, JWT_SECRET)
TokExpired == Token(2, AliceEmail, 0, JWT_SECRET)
TokForged == Token(1, AdminEmail, MaxNow + 1, "forged")
Tokens == {TokAdmin, TokAlice, TokExpired, TokForged}

\* The Authorization header: absent, without a second word, or "Bearer <token>".
NoHeader == [hdr |-> "absent"]
OneWordHeader == [hdr |-> "Bearer"]
BearerHeader(t) == [hdr |-> "Bearer <token>", token |-> t]
Headers == {NoHeader, OneWordHeader} \cup {BearerHeader(t) : t \in Tokens}
\* The headers of the callers that hold a token the server issued.
IssuedHeaders == {BearerHeader(TokAdmin), BearerHeader(TokAlice)}

\* jwt.verify(token, JWT_SECRET): err on a bad signature or an expired token.
JwtVerifyErr(t, clock) == t.key # JWT_SECRET \/ clock >= t.exp

AuthInvalidTokenResponse == Err(403, "Invalid token")

\* authenticateToken: the response that ends the request, or NULL when
\* next() is called.
authenticateToken(h, clock) ==
  IF h = NoHeader THEN Err(401, "No token provided")
  ELSE IF h = OneWordHeader THEN Err(401, "Malformed token")
  ELSE IF JwtVerifyErr(h.token, clock) THEN AuthInvalidTokenResponse
  ELSE NULL

\* req.user as authenticateToken sets it before next().
ReqUser(h) == [userId |-> h.token.userId, email |-> h.token.email]

\* verifySuperAdmin: TRUE when next() is called.
verifySuperAdmin(user) == user.email = AdminEmail

ForbiddenResponse == Err(403, "Forbidden: Super admin only")

\* bcrypt.hash / bcrypt.compare.
BcryptHash(password) == <<"bcrypt", 10, password>>
BcryptCompare(password, hash) == hash = BcryptHash(password)

\* ---------------------------------------------------------------- Init
\* Rows the store may already hold when the server starts.
SeedMedia ==
  <<[user_id |-> 1, type |-> "image", file_path |-> <<0, "a.png">>, group_id |-> "g1"]>>
SeedSettings ==
  <<[razorpay_key_id |-> "key_A", razorpay_key_secret |-> "sec_A", updated_at |-> 0]>>

\* The server starts: no request, no viewer, no gateway client yet.
Init ==
  /\ now = 0
  /\ users = <<>>
  /\ links = <<>>
  /\ media \in {<<>>, SeedMedia}
  /\ payment_settings \in {<<>>, SeedSettings}
  /\ user_packages = <<>>
  /\ payments = <<>>
  /\ razorpayInstance = NULL
  /\ bootPc = "query"
  /\ bootRows = <<>>
  /\ gatewayOrders = <<>>
  /\ rooms = [s \in Sock |-> {}]
  /\ connected = {}
  /\ inbox = [s \in Sock |-> <<>>]
  /\ emitted = <<>>
  /\ pc = [r \in Req |-> "idle"]
  /\ rq = [r \in Req |-> NoReq]
  /\ lv = [r \in Req |-> NoLv]
  /\ resp = [r \in Req |-> NoResp]

\* The clock advances.
Tick ==
  /\ \E d \in TickSteps :
       /\ now + d <= MaxNow
       /\ now' = now + d
  /\ UNCHANGED <<storeVars, gatewayVars, socketVars, reqVars>>

\* ------------------------------------------------------ POST /api/register
RegisterBody(name, email, password) ==
  [name |-> name, email |-> email, password |-> password]
RegisterBodies ==
  {RegisterBody("Alice", e, "pw123") : e \in Emails} \cup
  {RegisterBody(Empty, AliceEmail, "pw123"), RegisterBody("Alice", Empty, "pw123"),
   RegisterBody("Alice", AliceEmail, Empty)}

\* Register requests that have passed validation and not yet answered.
RegisterInFlight == {q \in Req : pc[q] \in {"reg_select", "reg_insert"}}

RegisterConflictResponse == Err(409, "Email already registered")

\* SELECT ... FROM users WHERE email = ?
UsersByEmail(email) == {i \in Rows(users) : users[i].email = email}

\* The request arrives; the body is validated and the SELECT is issued.
RegisterStart(r) ==
  /\ Free(r)
  /\ Len(users) + Cardinality(RegisterInFlight) < MaxUsers
  /\ \E b \in RegisterBodies :
       LET request == [kind |-> "register", body |-> b] IN
       IF ~(Truthy(b.name) /\ Truthy(b.email) /\ Truthy(b.password))
       THEN Finish(r, request, Err(400, "Name, email and password are required"))
       ELSE Await(r, "reg_select", request, NoLv)
  /\ UNCHANGED <<now, storeVars, gatewayVars, socketVars>>

\* The SELECT answers; on no row the password is hashed and the INSERT issued.
RegisterSelect(r) ==
  /\ pc[r] = "reg_select"
  /\ LET existing == UsersByEmail(rq[r].body.email) IN
     IF Cardinality(existing) > 0
     THEN Finish(r, rq[r], RegisterConflictResponse)
     ELSE Await(r, "reg_insert", rq[r],
                [hashedPassword |-> BcryptHash(rq[r].body.password)])
  /\ UNCHANGED <<now, storeVars, gatewayVars, socketVars>>

\* The users table accepts the INSERT (it declares no unique key on email).
UsersInsert(row) == users' = Append(users, row)

\* The INSERT answers with the new row's id.
RegisterInsert(r) ==
  /\ pc[r] = "reg_insert"
  /\ UsersInsert([id |-> Len(users) + 1, name |-> rq[r].body.name,
                  email |-> rq[r].body.email, password_hash |-> lv[r].hashedPassword])
  /\ Finish(r, rq[r],
            Response(201, [message |-> "User registered successfully",
                           userId |-> Len(users) + 1]))
  /\ UNCHANGED <<now, links, media, payment_settings, user_packages, payments,
                 gatewayVars, socketVars>>

\* --------------------------------------------------------- POST /api/login
LoginBody(email, password) == [email |-> email, password |-> password]
LoginBodies ==
  {LoginBody(e, p) : e \in Emails, p \in {"pw123", "hunter2"}} \cup
  {LoginBody(Empty, "pw123"), LoginBody(AliceEmail, Empty)}

\* A handler that tells the caller the email is unknown.
LoginNoUserLeaky == Err(404, "User not found")

LoginNoUserResponse == Err(401, "Invalid credentials")
LoginWrongPasswordResponse == Err(401, "Invalid credentials")

\* jwt.sign({userId, email}, JWT_SECRET, {expiresIn: '1d'})
JwtSign(userId, email, clock) ==
  [userId |-> userId, email |-> email, exp |-> clock + TokenTTLDays, key |-> JWT_SECRET]

LoginStart(r) ==
  /\ Free(r)
  /\ \E b \in LoginBodies :
       LET request == [kind |-> "login", body |-> b] IN
       IF ~(Truthy(b.email) /\ Truthy(b.password))
       THEN Finish(r, request, Err(400, "Email and password are required"))
       ELSE Await(r, "login_select", request, NoLv)
  /\ UNCHANGED <<now, storeVars, gatewayVars, socketVars>>

\* The SELECT answers; rows[0] is any matching row (the query has no ORDER BY).
LoginSelect(r) ==
  /\ pc[r] = "login_select"
  /\ LET rows == UsersByEmail(rq[r].body.email) IN
     IF Cardinality(rows) = 0
     THEN Finish(r, rq[r], LoginNoUserResponse)
     ELSE \E i \in rows :
            LET user == users[i]
                match == BcryptCompare(rq[r].body.password, user.password_hash)
            IN IF ~match
               THEN Finish(r, rq[r], LoginWrongPasswordResponse)
               ELSE Finish(r, rq[r],
                           Response(200, [token |-> JwtSign(user.id, rq[r].body.email, now)]))
  /\ UNCHANGED <<now, storeVars, gatewayVars, socketVars>>

\* ------------------------------------------------- POST /api/link/generate
\* The decimal digits of n, most significant first: Number.prototype.toString.
RECURSIVE Digits(_)
Digits(n) == IF n < 10 THEN <<n>> ELSE Append(Digits(n \div 10), n % 10)

\* Math.floor(1000 + Math.random() * 9000).toString(), Math.random() = u / RandRes.
LinkCode(u) == Digits(CodeBase + (u * CodeSpan) \div RandRes)
RandomDraws == 0 .. RandRes - 1

GenerateBodies == {[groupId |-> "g1"], [groupId |-> Empty]}

\* Generate requests inside generateUniqueLinkCode or awaiting their INSERT.
GenerateInFlight == {q \in Req : pc[q] \in {"gen_probe", "gen_insert"}}

\* SELECT id FROM links WHERE link_code = ? : every row, expired or not.
ProbeRows(code) == {i \in Rows(links) : links[i].link_code = code}

\* Every code Math.random() can produce is held by a row: no probe can miss.
LinksSaturated == \A u \in RandomDraws : ProbeRows(LinkCode(u)) # {}

\* The request arrives and passes the auth gate; the handler validates the
\* body, enters generateUniqueLinkCode, draws a code and issues its SELECT.
\* Requests arrive while the table has room, and again once it is saturated
\* (they can add no row then).
GenerateStart(r, H) ==
  /\ Free(r)
  /\ Len(links) + Cardinality(GenerateInFlight) < MaxLinks \/ LinksSaturated
  /\ \E h \in H, b \in GenerateBodies :
       LET request == [kind |-> "generate", header |-> h, body |-> b]
           gate == authenticateToken(h, now)
       IN IF gate # NULL THEN Finish(r, request, gate)
          ELSE IF ~Truthy(b.groupId)
          THEN Finish(r, request, Err(400, "Group ID is required"))
          ELSE \E u \in RandomDraws :
                 Await(r, "gen_probe", request, [user |-> ReqUser(h), code |-> LinkCode(u)])
  /\ UNCHANGED <<now, storeVars, gatewayVars, socketVars>>

\* The probe answers: a free code is returned to the handler, which computes
\* the expiry and issues the INSERT; a taken code is redrawn and probed again.
GenerateProbe(r) ==
  /\ pc[r] = "gen_probe"
  /\ IF Cardinality(ProbeRows(lv[r].code)) = 0
     THEN Await(r, "gen_insert", rq[r],
                [user |-> lv[r].user, code |-> lv[r].code, expiresAt |-> now + LinkTTLDays])
     ELSE \E u \in RandomDraws :
            Await(r, "gen_probe", rq[r], [user |-> lv[r].user, code |-> LinkCode(u)])
  /\ UNCHANGED <<now, storeVars, gatewayVars, socketVars>>

\* A links table declared without the unique key.
LinksNoUniqueKey(code) == TRUE

\* links.link_code is declared unique: the store rejects a second row with a code.
LinksUniqueKeyHolds(code) == \A i \in 1 .. Len(links) : links[i].link_code # code

\* A handler that answers a rejected INSERT by drawing and probing a new code.
GenerateInsertRetried(r) ==
  /\ links' = links
  /\ \E u \in RandomDraws :
       Await(r, "gen_probe", rq[r], [user |-> lv[r].user, code |-> LinkCode(u)])

\* The store rejects the INSERT: the handler's catch logs and answers 500.
GenerateInsertRejected(r) ==
  /\ links' = links
  /\ Finish(r, rq[r], InternalError)

\* The INSERT answers: the row is stored and the link returned, or the store's
\* rejection is caught at the boundary.
GenerateInsert(r) ==
  /\ pc[r] = "gen_insert"
  /\ IF LinksUniqueKeyHolds(lv[r].code)
     THEN /\ links' = Append(links, [id |-> Len(links) + 1,
                                     user_id |-> lv[r].user.userId,
                                     link_code |-> lv[r].code,
                                     group_id |-> rq[r].body.groupId,
                                     created_at |-> now,
                                     expires_at |-> lv[r].expiresAt])
          /\ Finish(r, rq[r],
                    Response(200, [link |-> <<"http://localhost:4000", "/", lv[r].code>>]))
     ELSE GenerateInsertRejected(r)
  /\ UNCHANGED <<now, users, media, payment_settings, user_packages, payments,
                 gatewayVars, socketVars>>

\* ---------------------------------------------- GET /api/link/:code/content
\* The codes a viewer may ask for: every code that can be drawn, and one that cannot.
ContentCodes == {LinkCode(u) : u \in RandomDraws} \cup {<<0, 0, 0, 7>>}

LinkNotFoundResponse == Err(404, "Link not found or expired")

ContentStart(r) ==
  /\ Free(r)
  /\ \E c \in ContentCodes :
       Await(r, "content_links", [kind |-> "content", code |-> c], NoLv)
  /\ UNCHANGED <<now, storeVars, gatewayVars, socketVars>>

\* The lookup with an inclusive comparison, expires_at >= NOW().
LiveLinksInclusive(code, clock) ==
  {i \in Rows(links) : links[i].link_code = code /\ links[i].expires_at >= clock}

\* SELECT * FROM links WHERE link_code = ? AND expires_at > NOW()
LiveLinks(code, clock) ==
  {i \in Rows(links) : links[i].link_code = code /\ links[i].expires_at > clock}

\* The links SELECT answers; on a hit the media SELECT is issued for links[0].
ContentLinks(r) ==
  /\ pc[r] = "content_links"
  /\ LET hits == LiveLinks(rq[r].code, now) IN
     IF Cardinality(hits) = 0
     THEN Finish(r, rq[r], LinkNotFoundResponse)
     ELSE \E i \in hits : Await(r, "content_media", rq[r], [link |-> links[i]])
  /\ UNCHANGED <<now, storeVars, gatewayVars, socketVars>>

\* SELECT * FROM media WHERE group_id = ? AND user_id = ?
MediaOf(link) ==
  {i \in Rows(media) : media[i].group_id = link.group_id /\ media[i].user_id = link.user_id}

ContentMedia(r) ==
  /\ pc[r] = "content_media"
  /\ Finish(r, rq[r],
            Response(200, [media |-> {media[i] : i \in MediaOf(lv[r].link)}]))
  /\ UNCHANGED <<now, storeVars, gatewayVars, socketVars>>

\* ------------------------------------------------- POST /api/media/upload
\* A file as multer hands it over: its MIME type <<type, subtype>> and name.
PngFile == [mimetype |-> <<"image", "png">>, originalname |-> "a.png"]
Mp4File == [mimetype |-> <<"video", "mp4">>, originalname |-> "b.mp4"]
UploadFiles(n) == [i \in 1 .. n |-> IF i % 2 = 1 THEN PngFile ELSE Mp4File]
UploadBodies == {[groupId |-> "g1"], [groupId |-> Empty]}

\* multer's filename: Date.now() + '-' + file.originalname.
StoredName(file, clock) == <<clock, "-", file.originalname>>

\* files.map(file => [userId, file.mimetype.split('/')[0], file.filename, groupId])
InsertValues(userId, files, groupId, clock) ==
  [i \in 1 .. Len(files) |->
     [user_id |-> userId, type |-> files[i].mimetype[1],
      file_path |-> StoredName(files[i], clock), group_id |-> groupId]]

\* req.body.groupId || null
GroupOrNull(groupId) == IF Truthy(groupId) THEN groupId ELSE NULL

\* The socket.io room of a user: `user_${userId}`.
RoomOf(userId) == <<"user_", userId>>

\* Rows the uploads in flight are about to insert.
RECURSIVE PendingRows(_)
PendingRows(S) ==
  IF S = {} THEN 0
  ELSE LET q == CHOOSE x \in S : TRUE IN
       (IF pc[q] = "upload_insert" THEN Len(lv[q].insertValues) ELSE 0)
         + PendingRows(S \ {q})

\* The request passes the auth gate and multer; the handler validates the
\* files, builds the rows and issues the INSERT.
UploadStart(r, H) ==
  /\ Free(r)
  /\ \E h \in H, n \in 0 .. MaxFiles, b \in UploadBodies :
       LET files == UploadFiles(n)
           request == [kind |-> "upload", header |-> h, files |-> files, body |-> b]
           gate == authenticateToken(h, now)
       IN /\ Len(media) + PendingRows(Req) + n <= MaxMedia
          /\ IF gate # NULL THEN Finish(r, request, gate)
             ELSE IF Len(files) = 0
             THEN Finish(r, request, Err(400, "No files uploaded"))
             ELSE Await(r, "upload_insert", request,
                        [userId |-> ReqUser(h).userId,
                         groupId |-> GroupOrNull(b.groupId),
                         insertValues |-> InsertValues(ReqUser(h).userId, files,
                                                       GroupOrNull(b.groupId), now)])
  /\ UNCHANGED <<now, storeVars, gatewayVars, socketVars>>

\* A handler that notifies once per stored file.
EmitPerFile(userId, groupId, rows) ==
  [i \in 1 .. Len(rows) |->
     [room |-> RoomOf(userId), event |-> "mediaUpdated", payload |-> [groupId |-> groupId]]]

\* io.to(`user_${userId}`).emit('mediaUpdated', { groupId }): the events published.
EmitMediaUpdated(userId, groupId, rows) ==
  <<[room |-> RoomOf(userId), event |-> "mediaUpdated", payload |-> [groupId |-> groupId]]>>

\* A broadcast that reaches every connected socket, whatever its rooms.
SubscribersAll(room) == connected

\* The sockets an event published to a room reaches.
Subscribers(room) == {s \in connected : room \in rooms[s]}

\* The events reach every socket that is in their room.
Publish(events) ==
  /\ emitted' = emitted \o events
  /\ inbox' = [s \in Sock |->
                 inbox[s] \o SelectSeq(events, LAMBDA e : s \in Subscribers(e.room))]

\* The INSERT answers: the rows are stored, the update is published and the
\* upload acknowledged.
UploadInsert(r) ==
  /\ pc[r] = "upload_insert"
  /\ media' = media \o lv[r].insertValues
  /\ Publish(EmitMediaUpdated(lv[r].userId, lv[r].groupId, lv[r].insertValues))
  /\ Finish(r, rq[r], Response(200, [message |-> "Files uploaded successfully"]))
  /\ UNCHANGED <<now, users, links, payment_settings, user_packages, payments,
                 gatewayVars, rooms, connected>>

\* The store rejects the INSERT: the failure is caught at the boundary.
UploadInsertRejected(r) ==
  /\ pc[r] = "upload_insert"
  /\ Finish(r, rq[r], InternalError)
  /\ UNCHANGED <<now, storeVars, gatewayVars, socketVars>>

\* ------------------------------------------------------ io.on('connection')
\* A viewer connects: a new socket, in no user room, that has received nothing.
Connect(s) ==
  /\ s \notin connected
  /\ connected' = connected \cup {s}
  /\ UNCHANGED <<now, storeVars, gatewayVars, rooms, inbox, emitted, reqVars>>

\* The user ids a viewer may name in joinUserRoom (the handler checks nothing).
JoinArgs == {1, 2}

\* socket.join(`user_${userId}`)
SocketJoin(joined, userId) == joined \cup {RoomOf(userId)}

\* A joinUserRoom message arrives.  The connection handler is registered
\* twice, so each socket carries two listeners and joins twice.
JoinUserRoom(s) ==
  /\ s \in connected
  /\ \E userId \in JoinArgs :
       rooms' = [rooms EXCEPT ![s] = SocketJoin(SocketJoin(rooms[s], userId), userId)]
  /\ UNCHANGED <<now, storeVars, gatewayVars, connected, inbox, emitted, reqVars>>

\* The viewer disconnects: socket.io removes the socket from every room,
\* and what the socket had received goes with it.
Disconnect(s) ==
  /\ s \in connected
  /\ connected' = connected \ {s}
  /\ rooms' = [rooms EXCEPT ![s] = {}]
  /\ inbox' = [inbox EXCEPT ![s] = <<>>]
  /\ UNCHANGED <<now, storeVars, gatewayVars, emitted, reqVars>>

\* ---------------------------------------------------- GET /api/media/list
MediaListStart(r, H) ==
  /\ Free(r)
  /\ \E h \in H :
       LET request == [kind |-> "media_list", header |-> h]
           gate == authenticateToken(h, now)
       IN IF gate # NULL THEN Finish(r, request, gate)
          ELSE Await(r, "list_select", request, [user |-> ReqUser(h)])
  /\ UNCHANGED <<now, storeVars, gatewayVars, socketVars>>

\* SELECT * FROM media WHERE user_id = ?
MediaByUser(userId) == {i \in Rows(media) : media[i].user_id = userId}

MediaListSelect(r) ==
  /\ pc[r] = "list_select"
  /\ Finish(r, rq[r],
            Response(200, [media |-> {media[i] : i \in MediaByUser(lv[r].user.userId)}]))
  /\ UNCHANGED <<now, storeVars, gatewayVars, socketVars>>

\* ------------------------------------------------------- gateway client
\* new Razorpay({key_id, key_secret})
Razorpay(row) == [key_id |-> row.razorpay_key_id, key_secret |-> row.razorpay_key_secret]

RECURSIVE MaxStamp(_)
MaxStamp(t) ==
  IF t = <<>> THEN 0
  ELSE LET m == MaxStamp(Tail(t)) IN IF Head(t).updated_at > m THEN Head(t).updated_at ELSE m

\* ... ORDER BY updated_at DESC LIMIT 1: a row with the greatest timestamp
\* (any of them when several rows were written within the same second).
LatestSettings ==
  {i \in 1 .. Len(payment_settings) : payment_settings[i].updated_at = MaxStamp(payment_settings)}

\* The timestamp of a row written now: that of the last row written by this
\* server when both fall in the same second, a later one otherwise.
NextStamps ==
  IF MaxStamp(payment_settings) = 0 THEN {1}
  ELSE {MaxStamp(payment_settings), MaxStamp(payment_settings) + 1}

\* SELECT razorpay_key_id, razorpay_key_secret FROM payment_settings
\* ORDER BY updated_at DESC LIMIT 1: the results the store may return when it
\* evaluates the query now.
LatestRows ==
  IF LatestSettings = {} THEN {<<>>}
  ELSE {<<[razorpay_key_id |-> payment_settings[i].razorpay_key_id,
           razorpay_key_secret |-> payment_settings[i].razorpay_key_secret]>> :
          i \in LatestSettings}

\* loadRazorpayKeys, from the moment it resumes with the rows of its SELECT.
LoadRazorpayKeys(rows) ==
  razorpayInstance' = IF Len(rows) = 0 THEN NULL ELSE Razorpay(rows[1])

\* The store evaluates the SELECT of the loadRazorpayKeys() call made when
\* the server starts; the call resumes later, after whatever handlers the
\* event loop runs in between.
BootQuery ==
  /\ bootPc = "query"
  /\ \E rows \in LatestRows : bootRows' = rows
  /\ bootPc' = "load"
  /\ UNCHANGED <<now, storeVars, razorpayInstance, gatewayOrders, socketVars, reqVars>>

\* The start-up loadRazorpayKeys() call resumes and installs the client.
BootLoad ==
  /\ bootPc = "load"
  /\ LoadRazorpayKeys(bootRows)
  /\ bootPc' = "done"
  /\ bootRows' = <<>>
  /\ UNCHANGED <<now, storeVars, gatewayOrders, socketVars, reqVars>>

\* ------------------------------------------ GET /api/admin/payment-settings
SettingsGetStart(r, H) ==
  /\ Free(r)
  /\ \E h \in H :
       LET request == [kind |-> "settings_get", header |-> h]
           gate == authenticateToken(h, now)
       IN IF gate # NULL THEN Finish(r, request, gate)
          ELSE IF ~verifySuperAdmin(ReqUser(h)) THEN Finish(r, request, ForbiddenResponse)
          ELSE Await(r, "sget_select", request, NoLv)
  /\ UNCHANGED <<now, storeVars, gatewayVars, socketVars>>

SettingsGetSelect(r) ==
  /\ pc[r] = "sget_select"
  /\ IF LatestSettings = {}
     THEN Finish(r, rq[r], Err(404, "Payment settings not configured"))
     ELSE \E i \in LatestSettings :
            Finish(r, rq[r],
                   Response(200, [razorpay_key_id |-> payment_settings[i].razorpay_key_id]))
  /\ UNCHANGED <<now, storeVars, gatewayVars, socketVars>>

\* ----------------------------------------- POST /api/admin/payment-settings
SettingsBody(id, secret) == [razorpay_key_id |-> id, razorpay_key_secret |-> secret]
SettingsBodies ==
  {SettingsBody("key_B", "sec_B"), SettingsBody("key_C", "sec_C"),
   SettingsBody(Empty, "sec_B")}

\* Updates that have not inserted their row yet.
SettingsInFlight == {q \in Req : pc[q] = "spost_insert"}

SettingsPostStart(r, H) ==
  /\ Free(r)
  /\ Len(payment_settings) + Cardinality(SettingsInFlight) < MaxSettings
  /\ \E h \in H, b \in SettingsBodies :
       LET request == [kind |-> "settings_post", header |-> h, body |-> b]
           gate == authenticateToken(h, now)
       IN IF gate # NULL THEN Finish(r, request, gate)
          ELSE IF ~verifySuperAdmin(ReqUser(h)) THEN Finish(r, request, ForbiddenResponse)
          ELSE IF ~(Truthy(b.razorpay_key_id) /\ Truthy(b.razorpay_key_secret))
          THEN Finish(r, request, Err(400, "Razorpay key ID and secret are required"))
          ELSE Await(r, "spost_insert", request, NoLv)
  /\ UNCHANGED <<now, storeVars, gatewayVars, socketVars>>

\* The INSERT answers; loadRazorpayKeys is called and issues its SELECT.
SettingsPostInsert(r) ==
  /\ pc[r] = "spost_insert"
  /\ \E ts \in NextStamps :
       payment_settings' =
         Append(payment_settings,
                [razorpay_key_id |-> rq[r].body.razorpay_key_id,
                 razorpay_key_secret |-> rq[r].body.razorpay_key_secret,
                 updated_at |-> ts])
  /\ Await(r, "spost_query", rq[r], NoLv)
  /\ UNCHANGED <<now, users, links, media, user_packages, payments, gatewayVars, socketVars>>

\* The store evaluates loadRazorpayKeys' SELECT; the handler resumes later.
SettingsPostQuery(r) ==
  /\ pc[r] = "spost_query"
  /\ \E rows \in LatestRows : Await(r, "spost_load", rq[r], [rows |-> rows])
  /\ UNCHANGED <<now, storeVars, gatewayVars, socketVars>>

\* loadRazorpayKeys resumes with the rows; the client is replaced and the
\* update acknowledged.
SettingsPostLoad(r) ==
  /\ pc[r] = "spost_load"
  /\ LoadRazorpayKeys(lv[r].rows)
  /\ Finish(r, rq[r], Response(200, [message |-> "Payment settings updated"]))
  /\ UNCHANGED <<now, storeVars, bootPc, bootRows, gatewayOrders, socketVars>>

\* ------------------------------------------- POST /api/payment/create-order
\* The packages table: reference data no handler writes.
packages == <<[id |-> "1", name |-> "Basic", price |-> 499, duration_days |-> 30]>>

NotConfiguredResponse == Err(500, "Payment gateway not configured")

OrderBodies == {[packageId |-> "1"], [packageId |-> "7"], [packageId |-> Empty]}

OrdersInFlight == {q \in Req : pc[q] = "order_package"}

\* The request passes the auth gate; the handler checks the client and the
\* body and issues the packages SELECT.  `checked` records the client that
\* check read; the handler itself keeps no copy of it.
CreateOrderStart(r, H) ==
  /\ Free(r)
  /\ Len(gatewayOrders) + Cardinality(OrdersInFlight) < MaxOrders
  /\ \E h \in H, b \in OrderBodies :
       LET request == [kind |-> "create_order", header |-> h, body |-> b]
           gate == authenticateToken(h, now)
       IN IF gate # NULL THEN Finish(r, request, gate)
          ELSE IF razorpayInstance = NULL THEN Finish(r, request, NotConfiguredResponse)
          ELSE IF ~Truthy(b.packageId)
          THEN Finish(r, request, Err(400, "Package ID is required"))
          ELSE Await(r, "order_package", request, [checked |-> razorpayInstance])
  /\ UNCHANGED <<now, storeVars, gatewayVars, socketVars>>

\* SELECT * FROM packages WHERE id = ?
PackagesById(id) == {i \in Rows(packages) : packages[i].id = id}

\* Options that carry the price in rupees.
OrderOptionsInRupees(pkg, clock) ==
  [amount |-> pkg.price, currency |-> "INR",
   receipt |-> <<"receipt_", clock>>, payment_capture |-> 1]

\* The options of razorpayInstance.orders.create.
OrderOptions(pkg, clock) ==
  [amount |-> pkg.price * PaisePerRupee, currency |-> "INR",
   receipt |-> <<"receipt_", clock>>, payment_capture |-> 1]

\* The packages SELECT answers; for packages[0] the handler asks the gateway,
\* through the client then loaded, to create the order.
CreateOrderPackage(r) ==
  /\ pc[r] = "order_package"
  /\ LET found == PackagesById(rq[r].body.packageId) IN
     IF found = {}
     THEN /\ Finish(r, rq[r], Err(404, "Package not found"))
          /\ UNCHANGED gatewayOrders
     ELSE IF razorpayInstance = NULL
     THEN /\ Finish(r, rq[r], InternalError)
          /\ UNCHANGED gatewayOrders
     ELSE \E i \in found :
            /\ gatewayOrders' =
                 Append(gatewayOrders,
                        [key_id |-> razorpayInstance.key_id,
                         options |-> OrderOptions(packages[i], now),
                         reply |-> NULL])
            /\ Await(r, "order_gateway", rq[r], [call |-> Len(gatewayOrders) + 1])
  /\ UNCHANGED <<now, storeVars, razorpayInstance, bootPc, bootRows, socketVars>>

\* The order descriptor the gateway mints for its n-th call.
GatewayOrder(n, options) ==
  [id |-> <<"order_", n>>, entity |-> "order", amount |-> options.amount,
   currency |-> options.currency, receipt |-> options.receipt, status |-> "created"]

\* res.json({ order })
OrderResponse(order) == Response(200, [order |-> order])

\* The gateway answers with the order, which the handler returns.
CreateOrderGateway(r) ==
  /\ pc[r] = "order_gateway"
  /\ LET n == lv[r].call
         order == GatewayOrder(n, gatewayOrders[n].options)
     IN /\ gatewayOrders' = [gatewayOrders EXCEPT ![n].reply = order]
        /\ Finish(r, rq[r], OrderResponse(order))
  /\ UNCHANGED <<now, storeVars, razorpayInstance, bootPc, bootRows, socketVars>>

\* The gateway rejects the order: the failure is caught at the boundary.
CreateOrderGatewayRejected(r) ==
  /\ pc[r] = "order_gateway"
  /\ gatewayOrders' = [gatewayOrders EXCEPT ![lv[r].call].reply = [error |-> TRUE]]
  /\ Finish(r, rq[r], InternalError)
  /\ UNCHANGED <<now, storeVars, razorpayInstance, bootPc, bootRows, socketVars>>

\* ---------------------------------------------- POST /api/payment/verify
\* razorpay_order_id + "|" + razorpay_payment_id, on strings as character sequences.
SignedMessage(orderId, paymentId) == orderId \o <<"|">> \o paymentId

\* crypto.createHmac('sha256', secret).update(message).digest('hex')
HmacSha256Hex(secret, message) == <<"hmac-sha256", secret, message>>

\* A missing or empty string, as a character sequence.
Blank == <<>>

VerifyBody(orderId, paymentId, signature) ==
  [razorpay_order_id |-> orderId, razorpay_payment_id |-> paymentId,
   razorpay_signature |-> signature]
VerifySecrets == {"sec_A", "sec_B"}
VerifyBodies ==
  {VerifyBody(<<"o">>, <<"p">>, HmacSha256Hex(k, SignedMessage(<<"o">>, <<"p">>))) :
     k \in VerifySecrets}
  \cup {VerifyBody(<<"o">>, <<"p">>, Blank), VerifyBody(Blank, <<"p">>, <<"x">>),
        VerifyBody(<<"o">>, <<"p">>, <<"x">>)}

\* A comparison that accepts whatever signature is supplied.
SignatureAnyAccepted(generated, supplied) == TRUE

\* generated_signature !== razorpay_signature, negated.
SignatureMatches(generated, supplied) == generated = supplied

InvalidSignatureResponse == Err(400, "Invalid payment signature")
VerifiedResponse == Response(200, [message |-> "Payment verified successfully"])

\* The whole handler: it awaits nothing and writes nothing (the subscription
\* update is a TODO in the source).
Verify(r, H) ==
  /\ Free(r)
  /\ \E h \in H, b \in VerifyBodies :
       LET request == [kind |-> "verify", header |-> h, body |-> b]
           gate == authenticateToken(h, now)
       IN IF gate # NULL THEN Finish(r, request, gate)
          ELSE IF razorpayInstance = NULL THEN Finish(r, request, NotConfiguredResponse)
          ELSE IF ~(b.razorpay_order_id # Blank /\ b.razorpay_payment_id # Blank
                    /\ b.razorpay_signature # Blank)
          THEN Finish(r, request, Err(400, "Payment details are required"))
          ELSE IF ~SignatureMatches(
                    HmacSha256Hex(razorpayInstance.key_secret,
                                  SignedMessage(b.razorpay_order_id, b.razorpay_payment_id)),
                    b.razorpay_signature)
          THEN Finish(r, request, InvalidSignatureResponse)
          ELSE Finish(r, request, VerifiedResponse)
  /\ UNCHANGED <<now, storeVars, gatewayVars, socketVars>>

\* --------------------------------------------- POST /api/payment/offline
\* The route is registered with authenticateToken alone; its body is a placeholder.
Offline(r, H) ==
  /\ Free(r)
  /\ \E h \in H :
       LET request == [kind |-> "offline", header |-> h]
           gate == authenticateToken(h, now)
       IN IF gate # NULL THEN Finish(r, request, gate)
          ELSE Finish(r, request,
                      Response(200, [message |-> "Offline payment recorded (placeholder)"]))
  /\ UNCHANGED <<now, storeVars, gatewayVars, socketVars>>

\* ------------------------------------------------------------------ specs
\* The whole server.
Next ==
  \/ \E r \in Req : RegisterStart(r)
  \/ \E r \in Req : RegisterSelect(r)
  \/ \E r \in Req : RegisterInsert(r)
  \/ \E r \in Req : LoginStart(r)
  \/ \E r \in Req : LoginSelect(r)
  \/ \E r \in Req : UploadStart(r, Headers)
  \/ \E r \in Req : UploadInsert(r)
  \/ \E r \in Req : UploadInsertRejected(r)
  \/ \E s \in Sock : Connect(s)
  \/ \E s \in Sock : JoinUserRoom(s)
  \/ \E s \in Sock : Disconnect(s)
  \/ \E r \in Req : MediaListStart(r, Headers)
  \/ \E r \in Req : MediaListSelect(r)
  \/ \E r \in Req : GenerateStart(r, Headers)
  \/ \E r \in Req : GenerateProbe(r)
  \/ \E r \in Req : GenerateInsert(r)
  \/ \E r \in Req : ContentStart(r)
  \/ \E r \in Req : ContentLinks(r)
  \/ \E r \in Req : ContentMedia(r)
  \/ BootQuery
  \/ BootLoad
  \/ \E r \in Req : SettingsGetStart(r, Headers)
  \/ \E r \in Req : SettingsGetSelect(r)
  \/ \E r \in Req : SettingsPostStart(r, Headers)
  \/ \E r \in Req : SettingsPostInsert(r)
  \/ \E r \in Req : SettingsPostQuery(r)
  \/ \E r \in Req : SettingsPostLoad(r)
  \/ \E r \in Req : CreateOrderStart(r, Headers)
  \/ \E r \in Req : CreateOrderPackage(r)
  \/ \E r \in Req : CreateOrderGateway(r)
  \/ \E r \in Req : CreateOrderGatewayRejected(r)
  \/ \E r \in Req : Verify(r, Headers)
  \/ \E r \in Req : Offline(r, Headers)
  \/ Tick

Spec == Init /\ [][Next]_vars

\* The auth gate and the admin gate, under every kind of Authorization
\* header, while the clock advances.
GateNext ==
  \/ \E r \in Req : MediaListStart(r, Headers)
  \/ \E r \in Req : MediaListSelect(r)
  \/ \E r \in Req : SettingsGetStart(r, Headers)
  \/ \E r \in Req : SettingsGetSelect(r)
  \/ \E r \in Req : Offline(r, Headers)
  \/ Tick

SpecGate == Init /\ [][GateNext]_vars

\* The media registry, for callers holding an issued token.
MediaNext ==
  \/ \E r \in Req : UploadStart(r, IssuedHeaders)
  \/ \E r \in Req : UploadInsert(r)
  \/ \E r \in Req : UploadInsertRejected(r)

InitMedia == Init /\ media = <<>> /\ payment_settings = <<>>
SpecMedia == InitMedia /\ [][MediaNext]_vars

\* Order creation while the administrator updates the gateway credentials.
OrderNext ==
  \/ BootQuery
  \/ BootLoad
  \/ \E r \in Req : SettingsPostStart(r, {BearerHeader(TokAdmin)})
  \/ \E r \in Req : SettingsPostInsert(r)
  \/ \E r \in Req : SettingsPostQuery(r)
  \/ \E r \in Req : SettingsPostLoad(r)
  \/ \E r \in Req : CreateOrderStart(r, {BearerHeader(TokAlice)})
  \/ \E r \in Req : CreateOrderPackage(r)
  \/ \E r \in Req : CreateOrderGateway(r)
  \/ \E r \in Req : CreateOrderGatewayRejected(r)

\* One user's uploads, one in flight at a time, while viewers connect, join
\* user rooms and disconnect between its steps.
CastNext ==
  \/ \E s \in Sock : Connect(s)
  \/ \E s \in Sock : JoinUserRoom(s)
  \/ \E s \in Sock : Disconnect(s)
  \/ \E r \in {1} : UploadStart(r, {BearerHeader(TokAlice)})
  \/ \E r \in {1} : UploadInsert(r)
  \/ \E r \in {1} : UploadInsertRejected(r)

SpecCast == InitMedia /\ [][CastNext]_vars

InitPay == Init /\ media = <<>>
SpecOrder == InitPay /\ [][OrderNext]_vars

\* Payment verification while the administrator updates the gateway credentials.
VerifyNext ==
  \/ BootQuery
  \/ BootLoad
  \/ \E r \in Req : SettingsPostStart(r, {BearerHeader(TokAdmin)})
  \/ \E r \in Req : SettingsPostInsert(r)
  \/ \E r \in Req : SettingsPostQuery(r)
  \/ \E r \in Req : SettingsPostLoad(r)
  \/ \E r \in Req : Verify(r, {BearerHeader(TokAlice)})

SpecVerify == InitPay /\ [][VerifyNext]_vars

\* The link allocator and the playback resolver, while the clock advances.
LinkNext ==
  \/ \E r \in Req : GenerateStart(r, {BearerHeader(TokAdmin)})
  \/ \E r \in Req : GenerateProbe(r)
  \/ \E r \in Req : GenerateInsert(r)
  \/ \E r \in Req : ContentStart(r)
  \/ \E r \in Req : ContentLinks(r)
  \/ \E r \in Req : ContentMedia(r)
  \/ Tick

InitLink == Init /\ media = SeedMedia /\ payment_settings = <<>>
SpecLink == InitLink /\ [][LinkNext]_vars

\* The link allocator alone.  The store answers every query it is sent, and
\* Math.random() is fair: a value that can be drawn again and again is drawn.
AllocNext ==
  \/ \E r \in Req : GenerateStart(r, {BearerHeader(TokAdmin)})
  \/ \E r \in Req : GenerateProbe(r)
  \/ \E r \in Req : GenerateInsert(r)
  \/ Tick

AllocFair ==
  /\ \A r \in Req : WF_vars(GenerateProbe(r))
  /\ \A r \in Req : WF_vars(GenerateInsert(r))
  /\ \A r \in Req : \A u \in RandomDraws :
       SF_vars(GenerateProbe(r) /\ lv'[r].code = LinkCode(u))

SpecAlloc == InitLink /\ [][AllocNext]_vars /\ AllocFair

InitAuth == Init /\ media = <<>> /\ payment_settings = <<>>

AuthNext ==
  \/ \E r \in Req : RegisterStart(r)
  \/ \E r \in Req : RegisterSelect(r)
  \/ \E r \in Req : RegisterInsert(r)
  \/ \E r \in Req : LoginStart(r)
  \/ \E r \in Req : LoginSelect(r)

SpecAuth == InitAuth /\ [][AuthNext]_vars

\* ----------------------------------------------------------------- claims
LinkRows == 1 .. Len(links)

\* C1: after any interleaving of concurrent link allocations, no two link
\* rows whose expires_at is still in the future carry the same link_code.
C1_LiveCodesUnique ==
  \A i, j \in LinkRows :
    (i # j /\ links[i].expires_at > now /\ links[j].expires_at > now)
      => links[i].link_code # links[j].link_code

\* The race happened: a request passed the probe for a code and is about to
\* insert it while a live row with that code has been stored meanwhile.
C1_Witness ==
  \E r \in Req :
    /\ pc[r] = "gen_insert"
    /\ \E i \in LinkRows : links[i].link_code = lv[r].code /\ links[i].expires_at > now

\* C5: a lookup evaluated at or past the expiry of the link rows holding the
\* code (none of them live) ends the request with the not-found/expired
\* error; the media query is never issued.
C5_ExpiredNeverResolves ==
  [][\A r \in Req :
       ( /\ pc[r] = "content_links"
         /\ pc'[r] # "content_links"
         /\ \E i \in LinkRows : links[i].link_code = rq[r].code
         /\ \A i \in LinkRows :
              links[i].link_code = rq[r].code => now >= links[i].expires_at )
       => (pc'[r] = "done" /\ resp'[r] = LinkNotFoundResponse)]_vars

\* An expired link's code was asked for and answered with the error.
C5_Witness ==
  \E r \in Req :
    /\ pc[r] = "done"
    /\ rq[r].kind = "content"
    /\ resp[r] = LinkNotFoundResponse
    /\ \E i \in LinkRows : links[i].link_code = rq[r].code /\ now = links[i].expires_at

UserRows == 1 .. Len(users)
Registered(email) == \E i \in UserRows : users[i].email = email
PasswordMatches(email, password) ==
  \E i \in UserRows :
    users[i].email = email /\ BcryptCompare(password, users[i].password_hash)
AnsweredLogin(r) ==
  /\ pc[r] = "done"
  /\ rq[r].kind = "login"
  /\ Truthy(rq[r].body.email)
  /\ Truthy(rq[r].body.password)
\* r named a registered email with a password no row of that email accepts.
WrongPasswordLogin(r) ==
  /\ AnsweredLogin(r)
  /\ Registered(rq[r].body.email)
  /\ ~PasswordMatches(rq[r].body.email, rq[r].body.password)
\* r named an email no row holds.
UnknownEmailLogin(r) == AnsweredLogin(r) /\ ~Registered(rq[r].body.email)

\* C4: a login naming a registered email with a wrong password and a login
\* naming an unregistered email receive the same status code and body.
C4_LoginDoesNotLeak ==
  \A r1, r2 \in Req :
    (WrongPasswordLogin(r1) /\ UnknownEmailLogin(r2)) => resp[r1] = resp[r2]

\* Both kinds of failed login have been answered.
C4_Witness ==
  \E r1, r2 \in Req :
    /\ WrongPasswordLogin(r1)
    /\ UnknownEmailLogin(r2)
    /\ resp[r1].status = 401

\* C8: after any interleaving of concurrent register requests, at most one
\* user row exists per email.
C8_OneRowPerEmail ==
  \A i, j \in UserRows : i # j => users[i].email # users[j].email

\* Slot r takes a new request of kind k in this step.
Arrives(r, k) ==
  /\ Free(r)
  /\ pc'[r] # "idle"
  /\ rq'[r].kind = k
  /\ <<pc[r], rq[r], resp[r]>> # <<pc'[r], rq'[r], resp'[r]>>

\* The request arriving in slot r carries a token jwt.verify accepts now.
ArrivesWithValidToken(r) ==
  /\ rq'[r].header.hdr = "Bearer <token>"
  /\ rq'[r].header.token.key = JWT_SECRET
  /\ now < rq'[r].header.token.exp

\* The signature of the verify request arriving in slot r is not the HMAC of
\* its order and payment ids under the loaded client's key secret.
ArrivesWithWrongSignature(r) ==
  /\ razorpayInstance # NULL
  /\ rq'[r].body.razorpay_signature #
       <<"hmac-sha256", razorpayInstance.key_secret,
         rq'[r].body.razorpay_order_id \o <<"|">> \o rq'[r].body.razorpay_payment_id>>

\* C2 as stated: every verify request whose signature differs from the HMAC
\* is answered with the invalid-signature error, activates no subscription
\* and writes no payment row.
C2_WrongSignatureAlwaysInvalid ==
  [][\A r \in Req :
       (Arrives(r, "verify") /\ ArrivesWithValidToken(r) /\ ArrivesWithWrongSignature(r))
       => ( /\ resp'[r] = InvalidSignatureResponse
            /\ UNCHANGED <<user_packages, payments>> )]_vars

\* C2 as amended: a verify request with non-empty order id, payment id and
\* signature whose signature differs from the HMAC is answered with the
\* invalid-signature error; whether or not its fields are empty, a request
\* with a differing signature is never answered as verified, activates no
\* subscription and writes no payment row.
C2_WrongSignatureRejected ==
  [][\A r \in Req :
       (Arrives(r, "verify") /\ ArrivesWithValidToken(r) /\ ArrivesWithWrongSignature(r))
       => ( /\ ( /\ rq'[r].body.razorpay_order_id # <<>>
                 /\ rq'[r].body.razorpay_payment_id # <<>>
                 /\ rq'[r].body.razorpay_signature # <<>> )
               => resp'[r] = InvalidSignatureResponse
            /\ pc'[r] = "done"
            /\ resp'[r].status # 200
            /\ UNCHANGED <<user_packages, payments>> )]_vars

\* A complete verify request with a wrong signature was answered.
C2_Witness ==
  \E r \in Req :
    /\ pc[r] = "done"
    /\ rq[r].kind = "verify"
    /\ rq[r].body.razorpay_signature = <<"x">>
    /\ rq[r].body.razorpay_order_id # <<>>
    /\ resp[r] = InvalidSignatureResponse

\* C3: a verify request answered as verified has activated the caller's
\* subscription and recorded a payment with status Verified.
C3_VerifiedActivates ==
  \A r \in Req :
    (pc[r] = "done" /\ rq[r].kind = "verify" /\ resp[r] = VerifiedResponse)
    => ( /\ \E i \in 1 .. Len(user_packages) :
              /\ user_packages[i].user_id = rq[r].header.token.userId
              /\ user_packages[i].active
         /\ \E i \in 1 .. Len(payments) :
              /\ payments[i].user_id = rq[r].header.token.userId
              /\ payments[i].status = "Verified" )

\* C6: an upload with no file is answered with the validation error and
\* stores and publishes nothing; an acknowledged upload of N files has stored
\* exactly N rows owned by the caller and published exactly one mediaUpdated
\* event to the caller's room; nothing else stores a row or publishes.
C6_UploadRowsAndOneEvent ==
  [][/\ \A r \in Req :
          (Arrives(r, "upload") /\ ArrivesWithValidToken(r) /\ Len(rq'[r].files) = 0)
          => ( /\ pc'[r] = "done"
               /\ resp'[r].status = 400
               /\ UNCHANGED <<media, emitted, inbox>> )
     /\ \A r \in Req :
          (pc[r] = "upload_insert" /\ pc'[r] = "done" /\ resp'[r].status = 200)
          => LET n == Len(rq[r].files)
                 caller == rq[r].header.token.userId
             IN /\ n >= 1
                /\ Len(media') = Len(media) + n
                /\ SubSeq(media', 1, Len(media)) = media
                /\ \A i \in Len(media) + 1 .. Len(media') : media'[i].user_id = caller
                /\ Len(emitted') = Len(emitted) + 1
                /\ SubSeq(emitted', 1, Len(emitted)) = emitted
                /\ emitted'[Len(emitted')].event = "mediaUpdated"
                /\ emitted'[Len(emitted')].room = <<"user_", caller>>
     /\ (media' # media \/ emitted' # emitted)
          => \E r \in Req :
               pc[r] = "upload_insert" /\ pc'[r] = "done" /\ resp'[r].status = 200
    ]_vars

\* An upload of two files was acknowledged after its rows were stored and
\* its event published.
C6_Witness ==
  \E r \in Req :
    /\ pc[r] = "done"
    /\ rq[r].kind = "upload"
    /\ Len(rq[r].files) = 2
    /\ resp[r].status = 200
    /\ Len(media) >= 2
    /\ Len(emitted) >= 1

\* The answered request in slot r carried a token jwt.verify still accepts.
AnsweredWithValidToken(r) ==
  /\ pc[r] = "done"
  /\ rq[r].kind \in {"media_list", "settings_get", "settings_post", "offline"}
  /\ rq[r].header.hdr = "Bearer <token>"
  /\ rq[r].header.token.key = JWT_SECRET
  /\ now < rq[r].header.token.exp

AnsweredWithBadCredential(r) ==
  /\ pc[r] = "done"
  /\ rq[r].kind \in {"media_list", "settings_get", "offline"}
  /\ \/ rq[r].header.hdr # "Bearer <token>"
     \/ rq[r].header.token.key # JWT_SECRET
     \/ rq[r].header.token.exp = 0

\* C9: authenticateToken answers 401 when the header is absent or malformed
\* and when the token is expired or its signature invalid.
C9_BadCredentialIs401 ==
  \A r \in Req : AnsweredWithBadCredential(r) => resp[r].status = 401

\* C10: create-order answers not-configured, without a gateway call, when
\* no client is loaded; for an existing package it asks the gateway, through
\* the loaded client, for an order of exactly price * 100; and the order it
\* returns is the descriptor the gateway answered with.
C10_CreateOrder ==
  [][\A r \in Req :
       /\ (Arrives(r, "create_order") /\ ArrivesWithValidToken(r) /\ razorpayInstance = NULL)
          => ( /\ pc'[r] = "done"
               /\ resp'[r] = NotConfiguredResponse
               /\ UNCHANGED gatewayOrders )
       /\ ( /\ pc[r] = "order_package"
            /\ pc'[r] # "order_package"
            /\ razorpayInstance # NULL
            /\ \E i \in 1 .. Len(packages) : packages[i].id = rq[r].body.packageId )
          => ( /\ pc'[r] = "order_gateway"
               /\ Len(gatewayOrders') = Len(gatewayOrders) + 1
               /\ SubSeq(gatewayOrders', 1, Len(gatewayOrders)) = gatewayOrders
               /\ gatewayOrders'[Len(gatewayOrders')].key_id = razorpayInstance.key_id
               /\ \E i \in 1 .. Len(packages) :
                    /\ packages[i].id = rq[r].body.packageId
                    /\ gatewayOrders'[Len(gatewayOrders')].options.amount
                         = packages[i].price * 100 )
       /\ (pc[r] = "order_gateway" /\ pc'[r] = "done" /\ resp'[r].status = 200)
          => resp'[r].body = [order |-> gatewayOrders'[lv[r].call].reply]
    ]_vars

\* One create-order request was refused for want of a client, another
\* returned the order the gateway minted.
C10_Witness ==
  \E r1, r2 \in Req :
    /\ pc[r1] = "done" /\ rq[r1].kind = "create_order"
    /\ resp[r1] = NotConfiguredResponse
    /\ pc[r2] = "done" /\ rq[r2].kind = "create_order"
    /\ resp[r2].status = 200
    /\ \E n \in 1 .. Len(gatewayOrders) :
         /\ gatewayOrders[n].reply = resp[r2].body.order
         /\ gatewayOrders[n].options.amount = 49900

\* C11: a create-order request that finds its package asks the gateway for
\* the order through the client that was loaded when the request began,
\* whatever a credential update or reload has installed, or cleared, while
\* the request was suspended.
C11_OrderUsesStartingClient ==
  [][\A r \in Req :
       ( /\ pc[r] = "order_package"
         /\ pc'[r] # "order_package"
         /\ \E i \in 1 .. Len(packages) : packages[i].id = rq[r].body.packageId )
       => ( /\ pc'[r] = "order_gateway"
            /\ Len(gatewayOrders') = Len(gatewayOrders) + 1
            /\ gatewayOrders'[Len(gatewayOrders')].key_id = lv[r].checked.key_id )]_vars

\* C12: the mediaUpdated event a user's upload publishes carries the
\* upload's group id and is appended to the inbox of every socket that is
\* connected and in that user's room at that moment, and of no other socket;
\* no other step delivers anything, so a socket that joins later never
\* receives an event published before.
C12_DeliveredToCurrentSubscribers ==
  [][/\ \A r \in Req :
          (pc[r] = "upload_insert" /\ emitted' # emitted)
          => LET e == emitted'[Len(emitted')]
                 u == rq[r].header.token.userId
             IN /\ Len(emitted') = Len(emitted) + 1
                /\ e.event = "mediaUpdated"
                /\ e.payload.groupId =
                     (IF rq[r].body.groupId # "" THEN rq[r].body.groupId ELSE [null |-> TRUE])
                /\ \A s \in Sock :
                     IF s \in connected /\ <<"user_", u>> \in rooms[s]
                     THEN inbox'[s] = Append(inbox[s], e)
                     ELSE inbox'[s] = inbox[s]
     /\ emitted' = emitted => \A s \in Sock : inbox'[s] \in {inbox[s], <<>>}
    ]_vars

\* Two events were published to user 2's room: a viewer that joined the room
\* between them holds the second only, and a viewer in user 1's room holds none.
C12_Witness ==
  \E s1, s2 \in Sock :
    /\ {s1, s2} \subseteq connected
    /\ Len(emitted) = 2
    /\ <<"user_", 2>> \in rooms[s1]
    /\ inbox[s1] = <<emitted[2]>>
    /\ rooms[s2] = {<<"user_", 1>>}
    /\ inbox[s2] = <<>>

\* Some code of the code space is held by no link row that is still live.
SomeCodeNotLive ==
  \E u \in RandomDraws :
    \A i \in LinkRows :
      links[i].link_code = LinkCode(u) => now >= links[i].expires_at

\* The four decimal digits of a number in 1000..9999.
FourDigitCode(c) ==
  /\ Len(c) = 4
  /\ c[1] \in 1 .. 9
  /\ \A k \in 2 .. 4 : c[k] \in 0 .. 9

\* C13: generateUniqueLinkCode only returns codes in 1000..9999, and a call
\* that is probing while some code is not assigned to a non-expired link
\* eventually returns (or every code becomes assigned to a non-expired link):
\* it never loops forever while such a code remains.
C13_AllocatorReturns ==
  /\ [](\A r \in Req : pc[r] = "gen_insert" => FourDigitCode(lv[r].code))
  /\ \A r \in Req :
       (pc[r] = "gen_probe" /\ SomeCodeNotLive)
         ~> (pc[r] # "gen_probe" \/ ~SomeCodeNotLive)

\* C14: of the allocations that passed the existence check for one code,
\* the INSERT that reaches the store first adds the row and returns the link;
\* an INSERT that finds the code already held adds no row and ends its
\* request with the generic 500 response, without probing another code.
C14_CollisionEndsIn500 ==
  [][\A r \in Req :
       (pc[r] = "gen_insert" /\ pc'[r] # "gen_insert")
       => IF \E i \in LinkRows : links[i].link_code = lv[r].code
          THEN /\ pc'[r] = "done"
               /\ resp'[r] = [status |-> 500, body |-> [error |-> "Internal server error"]]
               /\ links' = links
          ELSE /\ pc'[r] = "done"
               /\ resp'[r].status = 200
               /\ Len(links') = Len(links) + 1
               /\ SubSeq(links', 1, Len(links)) = links
               /\ links'[Len(links')].link_code = lv[r].code]_vars

\* One allocation returned its link and the other ended with the 500, and
\* the returned code is held by exactly one row.
C14_Witness ==
  \E r1, r2 \in Req :
    /\ pc[r1] = "done" /\ rq[r1].kind = "generate" /\ resp[r1].status = 200
    /\ pc[r2] = "done" /\ rq[r2].kind = "generate" /\ resp[r2].status = 500
    /\ Cardinality({i \in LinkRows : links[i].link_code = resp[r1].body.link[3]}) = 1
    /\ Len(links) = 1

\* C15: a lookup of a code held only by expired link rows is answered
\* differently from a lookup, already answered, of a code no link row holds.
C15_MissesDistinct ==
  [][\A r1, r2 \in Req :
       ( /\ pc[r1] = "done"
         /\ rq[r1].kind = "content"
         /\ \A i \in LinkRows : links[i].link_code # rq[r1].code
         /\ pc[r2] = "content_links"
         /\ pc'[r2] # "content_links"
         /\ \E i \in LinkRows : links[i].link_code = rq[r2].code
         /\ \A i \in LinkRows :
              links[i].link_code = rq[r2].code => now >= links[i].expires_at )
       => resp'[r2] # resp[r1]]_vars

\* A credential update that has passed validation and not yet been answered.
SettingsUpdateInFlight ==
  \E r \in Req : pc[r] \in {"spost_insert", "spost_query", "spost_load"}

\* C16: once the start-up load has completed, whenever no credential update
\* is in flight the gateway client holds the key id and secret of the last
\* row appended to payment_settings, or is unset when the table is empty.
C16_ClientIsLatestRow ==
  (bootPc = "done" /\ ~SettingsUpdateInFlight)
  => IF Len(payment_settings) = 0
     THEN razorpayInstance = [null |-> TRUE]
     ELSE razorpayInstance =
            [key_id |-> payment_settings[Len(payment_settings)].razorpay_key_id,
             key_secret |-> payment_settings[Len(payment_settings)].razorpay_key_secret]
====
